---- MODULE Spec2Model ----
(***************************************************************************)
(* PageRank (src/pagerank/pagerank.py): transition_model, sample_pagerank  *)
(* and iterate_pagerank, in exact rational arithmetic.                     *)
(*                                                                         *)
(* A corpus is a function from its pages (1..N) to sets of pages.  A       *)
(* damping factor is a fraction <<numerator, denominator>>.  Small         *)
(* rationals (transition probabilities, sample frequencies) are fractions  *)
(* in lowest terms.  The ranks of iterate_pagerank need more digits than   *)
(* a machine integer holds, so they are kept as arbitrary-precision signed *)
(* integers over one common denominator.                                   *)
(***************************************************************************)
EXTENDS Integers, Sequences, FiniteSets, TLC

\* ------------------------------------------------------------------ bounds
MaxPages == 3        \* corpora have 0..MaxPages pages
MaxSamples == 3      \* sample_pagerank is called with n in -1..MaxSamples
MaxLimbs == 12       \* ranks whose common denominator needs more limbs are not followed

\* ------------------------------------------------- small rationals (floats)
Abs(x) == IF x < 0 THEN -x ELSE x

RECURSIVE Gcd(_, _)
Gcd(a, b) == IF b = 0 THEN a ELSE Gcd(b, a % b)

Lcm(a, b) == (a * b) \div Gcd(a, b)

\* the fraction n/d in lowest terms with a positive denominator (d # 0)
Rat(n, d) ==
    LET g == Gcd(Abs(n), Abs(d))
        s == IF d < 0 THEN -1 ELSE 1
    IN  <<(s * n) \div g, (s * d) \div g>>

RatAdd(x, y) == Rat(x[1] * y[2] + y[1] * x[2], x[2] * y[2])
RatSub(x, y) == Rat(x[1] * y[2] - y[1] * x[2], x[2] * y[2])
RatDivInt(x, k) == Rat(x[1], x[2] * k)
RatLess(x, y) == x[1] * y[2] < y[1] * x[2]
One == <<1, 1>>
Zero == <<0, 1>>

\* sum(f.values()) for a function f from pages to rationals
RECURSIVE RatSumOver(_, _)
RatSumOver(f, S) ==
    IF S = {} THEN Zero
    ELSE LET p == CHOOSE x \in S : TRUE
         IN  RatAdd(f[p], RatSumOver(f, S \ {p}))

RatSum(f) == RatSumOver(f, DOMAIN f)

\* -------------------------------------- arbitrary-precision signed integers
\* magnitude: little-endian sequence of limbs in 0..Base-1, no leading zero limb
Base == 10^6

RECURSIVE Limbs(_)
Limbs(n) == IF n = 0 THEN <<>> ELSE <<n % Base>> \o Limbs(n \div Base)

RECURSIVE Trim(_)
Trim(a) ==
    IF a # <<>> /\ a[Len(a)] = 0 THEN Trim(SubSeq(a, 1, Len(a) - 1)) ELSE a

RECURSIVE AddMag(_, _, _)
AddMag(a, b, c) ==
    IF a = <<>> /\ b = <<>> THEN Limbs(c)
    ELSE LET x == IF a = <<>> THEN 0 ELSE Head(a)
             y == IF b = <<>> THEN 0 ELSE Head(b)
             s == x + y + c
         IN  <<s % Base>> \o AddMag(IF a = <<>> THEN a ELSE Tail(a),
                                    IF b = <<>> THEN b ELSE Tail(b),
                                    s \div Base)

\* a - b - c for a >= b + c, untrimmed
RECURSIVE SubMag(_, _, _)
SubMag(a, b, c) ==
    IF a = <<>> THEN <<>>
    ELSE LET y == IF b = <<>> THEN 0 ELSE Head(b)
             s == Head(a) - y - c
         IN  <<s % Base>> \o SubMag(Tail(a),
                                    IF b = <<>> THEN b ELSE Tail(b),
                                    IF s < 0 THEN 1 ELSE 0)

RECURSIVE CmpTop(_, _, _)
CmpTop(a, b, i) ==
    IF i = 0 THEN 0
    ELSE IF a[i] # b[i] THEN (IF a[i] < b[i] THEN -1 ELSE 1)
    ELSE CmpTop(a, b, i - 1)

CmpMag(a, b) ==
    IF Len(a) # Len(b) THEN (IF Len(a) < Len(b) THEN -1 ELSE 1)
    ELSE CmpTop(a, b, Len(a))

\* a * m + c for a small m >= 0
RECURSIVE MulMag(_, _, _)
MulMag(a, m, c) ==
    IF a = <<>> THEN Limbs(c)
    ELSE LET s == Head(a) * m + c
         IN  <<s % Base>> \o MulMag(Tail(a), m, s \div Base)

\* remainder and quotient of a by a small m > 0, from the top limb down
RECURSIVE ModTop(_, _, _, _)
ModTop(a, m, i, r) ==
    IF i = 0 THEN r ELSE ModTop(a, m, i - 1, (r * Base + a[i]) % m)

RECURSIVE DivTop(_, _, _, _)
DivTop(a, m, i, r) ==
    IF i = 0 THEN <<>>
    ELSE LET x == r * Base + a[i]
         IN  DivTop(a, m, i - 1, x % m) \o <<x \div m>>

Big(neg, mag) == [neg |-> neg /\ mag # <<>>, mag |-> mag]
BigInt(n) == Big(n < 0, Limbs(Abs(n)))
BigZero == BigInt(0)
BigNeg(a) == Big(~a.neg, a.mag)
BigAbs(a) == Big(FALSE, a.mag)

BigAdd(a, b) ==
    IF a.neg = b.neg THEN Big(a.neg, AddMag(a.mag, b.mag, 0))
    ELSE LET c == CmpMag(a.mag, b.mag)
         IN  IF c = 0 THEN BigZero
             ELSE IF c > 0 THEN Big(a.neg, Trim(SubMag(a.mag, b.mag, 0)))
             ELSE Big(b.neg, Trim(SubMag(b.mag, a.mag, 0)))

BigSub(a, b) == BigAdd(a, BigNeg(b))

\* a * m for a small integer m
BigMul(a, m) ==
    IF m = 0 THEN BigZero
    ELSE Big(a.neg # (m < 0), MulMag(a.mag, Abs(m), 0))

BigLess(a, b) ==
    IF a.neg # b.neg THEN a.neg
    ELSE IF a.neg THEN CmpMag(a.mag, b.mag) > 0
    ELSE CmpMag(a.mag, b.mag) < 0

BigDivides(m, a) == ModTop(a.mag, m, Len(a.mag), 0) = 0
BigDivExact(a, m) == Big(a.neg, Trim(DivTop(a.mag, m, Len(a.mag), 0)))

\* sum of f over the set S, f a function to big integers
RECURSIVE BigSumOver(_, _)
BigSumOver(f, S) ==
    IF S = {} THEN BigZero
    ELSE LET p == CHOOSE x \in S : TRUE
         IN  BigAdd(f[p], BigSumOver(f, S \ {p}))

\* a vector of rationals num[p]/den over one common denominator den > 0
Vec(num, den) == [num |-> num, den |-> den]

VecAllDivisible(v, k) ==
    /\ BigDivides(k, v.den)
    /\ \A p \in DOMAIN v.num : BigDivides(k, v.num[p])

RECURSIVE ReduceBy(_, _)
ReduceBy(v, k) ==
    IF VecAllDivisible(v, k)
    THEN ReduceBy(Vec([p \in DOMAIN v.num |-> BigDivExact(v.num[p], k)],
                      BigDivExact(v.den, k)), k)
    ELSE v

\* v with every common factor in the set ks divided out: the same rationals,
\* and one representation for each vector whose denominator has no other prime
RECURSIVE Reduce(_, _)
Reduce(v, ks) ==
    IF ks = {} THEN v
    ELSE LET k == CHOOSE x \in ks : TRUE
         IN  Reduce(ReduceBy(v, k), ks \ {k})

VecSum(v) == BigSumOver(v.num, DOMAIN v.num)

\* ------------------------------------------------------------------ inputs
DAMPING == <<17, 20>>
Dampings == {<<0, 1>>, <<1, 2>>, DAMPING, <<1, 1>>}

\* the link graphs crawl() can build: every link is to another page of the corpus
CorporaOf(N) == [1..N -> SUBSET (1..N)]
Corpora ==
    UNION {{c \in CorporaOf(N) : \A p \in 1..N : p \notin c[p]} : N \in 0..MaxPages}

SampleCounts == -1..MaxSamples

Max(a, b) == IF a >= b THEN a ELSE b

\* ------------------------------------------------------------------- state
VARIABLES
    pc,              \* "idle", "sample_loop", "sample_done", "iterate_loop",
                     \* "iterate_norm", "iterate_done", or the exception raised
    corpus,          \* argument corpus
    damping_factor,  \* argument damping_factor
    n,               \* argument n of sample_pagerank
    page_counts,     \* sample_pagerank: page_counts
    page,            \* sample_pagerank: page
    i,               \* sample_pagerank: iterations of the for loop done
    model,           \* sample_pagerank: model, the last transition_model result
    model_page,      \* sample_pagerank: the page that model was computed for
    pageranks,       \* sample_pagerank: the mapping returned
    pagerank,        \* iterate_pagerank: pagerank
    seen             \* history: the values of pagerank at the start of the rounds run

vars ==
    <<pc, corpus, damping_factor, n, page_counts, page, i, model, model_page,
      pageranks, pagerank, seen>>

NoPage == 0
Empty == [p \in {} |-> 0]
EmptyVec == Vec(Empty, BigInt(1))

Init ==
    /\ pc = "idle"
    /\ corpus = Empty
    /\ damping_factor = DAMPING
    /\ n = 0
    /\ page_counts = Empty
    /\ page = NoPage
    /\ i = 0
    /\ model = Empty
    /\ model_page = NoPage
    /\ pageranks = Empty
    /\ pagerank = EmptyVec
    /\ seen = {}

\* -------------------------------------------------------- transition_model
\* transition_model with damping_factor / total_pages added for a linked page
transition_model_total(c, pg, d) ==
    LET total_pages == Cardinality(DOMAIN c)
        base == RatDivInt(RatSub(One, d), total_pages)
    IN  IF c[pg] # {}
        THEN [p \in DOMAIN c |->
                IF p \in c[pg] THEN RatAdd(base, RatDivInt(d, total_pages)) ELSE base]
        ELSE [p \in DOMAIN c |-> RatDivInt(One, total_pages)]

\* transition_model with = in place of += on line 69
transition_model_assign(c, pg, d) ==
    LET total_pages == Cardinality(DOMAIN c)
        base == RatDivInt(RatSub(One, d), total_pages)
    IN  IF c[pg] # {}
        THEN [p \in DOMAIN c |->
                IF p \in c[pg] THEN RatDivInt(d, Cardinality(c[pg])) ELSE base]
        ELSE [p \in DOMAIN c |-> RatDivInt(One, total_pages)]

\* transition_model without the else branch of lines 70-73
transition_model_no_else(c, pg, d) ==
    LET total_pages == Cardinality(DOMAIN c)
        base == RatDivInt(RatSub(One, d), total_pages)
    IN  [p \in DOMAIN c |->
            IF p \in c[pg] THEN RatAdd(base, RatDivInt(d, Cardinality(c[pg]))) ELSE base]

transition_model(c, pg, d) ==
    LET total_pages == Cardinality(DOMAIN c)
    IN  IF c[pg] # {}
        THEN LET linked_pages == c[pg]
                 num_links == Cardinality(linked_pages)
                 base == RatDivInt(RatSub(One, d), total_pages)
             IN  [p \in DOMAIN c |->
                    IF p \in linked_pages
                    THEN RatAdd(base, RatDivInt(d, num_links))
                    ELSE base]
        ELSE [p \in DOMAIN c |-> RatDivInt(One, total_pages)]

\* ---------------------------------------------------------- sample_pagerank
\* random.choices(population, weights, k=1)[0]: a page of positive weight
Choices(m) == {p \in DOMAIN m : RatLess(Zero, m[p])}

\* lines 83-84; random.choice of an empty list raises IndexError
SampleEntry ==
    /\ pc = "idle"
    /\ \E c \in Corpora, d \in Dampings, k \in SampleCounts :
        /\ corpus' = c
        /\ damping_factor' = d
        /\ n' = k
        /\ page_counts' = [p \in DOMAIN c |-> 0]
        /\ IF DOMAIN c = {}
           THEN pc' = "IndexError" /\ page' = NoPage
           ELSE pc' = "sample_loop" /\ page' \in DOMAIN c
    /\ UNCHANGED <<i, model, model_page, pageranks, pagerank, seen>>

\* lines 86-93: one iteration of the for loop
SampleStep ==
    /\ pc = "sample_loop"
    /\ i < n
    /\ page_counts' = [page_counts EXCEPT ![page] = @ + 1]
    /\ model' = transition_model(corpus, page, damping_factor)
    /\ model_page' = page
    /\ page' \in Choices(model')
    /\ i' = i + 1
    /\ UNCHANGED <<pc, corpus, damping_factor, n, pageranks, pagerank, seen>>

\* line 96 dividing by the number of pages in place of n
FrequenciesPerPage(counts, k) ==
    [p \in DOMAIN counts |-> Rat(counts[p], Cardinality(DOMAIN counts))]

\* line 96: {page: count / n for page, count in page_counts.items()}, n # 0
Frequencies(counts, k) == [p \in DOMAIN counts |-> Rat(counts[p], k)]

\* lines 96-97: count / n raises ZeroDivisionError when n = 0
SampleReturn ==
    /\ pc = "sample_loop"
    /\ i >= n
    /\ IF n = 0
       THEN pc' = "ZeroDivisionError" /\ UNCHANGED pageranks
       ELSE /\ pc' = "sample_done"
            /\ pageranks' = Frequencies(page_counts, n)
    /\ UNCHANGED <<corpus, damping_factor, n, page_counts, page, i, model, model_page, pagerank, seen>>

\* --------------------------------------------------------- iterate_pagerank
convergence_threshold == <<1, 1000>>

\* least common multiple of len(links) over the pages that have links
RECURSIVE LinkLcm(_, _)
LinkLcm(c, S) ==
    IF S = {} THEN 1
    ELSE LET q == CHOOSE x \in S : TRUE
             rest == LinkLcm(c, S \ {q})
         IN  IF c[q] = {} THEN rest ELSE Lcm(Cardinality(c[q]), rest)

\* one round multiplies the common denominator by this
Scale(c, d) == d[2] * Cardinality(DOMAIN c) * LinkLcm(c, DOMAIN c)

\* the primes a denominator of a rank can have: those of Scale(c, d)
Factors(c, d) ==
    {k \in 2..Max(d[2], Cardinality(DOMAIN c)) :
        /\ Scale(c, d) % k = 0
        /\ \A j \in 2..(k - 1) : k % j # 0}

\* line 106: {page: 1 / N for page in corpus}
InitialRank(c) ==
    IF DOMAIN c = {} THEN EmptyVec
    ELSE Vec([p \in DOMAIN c |-> BigInt(1)], BigInt(Cardinality(DOMAIN c)))

\* lines 113-122 without the branch of lines 118-119 for pages with no links
NewRankNoDeadEnd(c, d, pr) ==
    LET N == Cardinality(DOMAIN c)
        K == LinkLcm(c, DOMAIN c)
        term(potential_linker, pg) ==
            IF pg \in c[potential_linker]
            THEN BigMul(pr.num[potential_linker],
                        (N * K) \div Cardinality(c[potential_linker]))
            ELSE BigZero
        total(pg) == BigSumOver([q \in DOMAIN c |-> term(q, pg)], DOMAIN c)
    IN  IF N = 0 THEN pr
        ELSE Vec([pg \in DOMAIN c |->
                    BigAdd(BigMul(BigMul(pr.den, K), d[2] - d[1]),
                           BigMul(total(pg), d[1]))],
                 BigMul(BigMul(BigMul(pr.den, d[2]), N), K))

\* lines 113-122 with the link followed backwards on line 120:
\* potential_linker in corpus[page]
NewRankReversed(c, d, pr) ==
    LET N == Cardinality(DOMAIN c)
        K == LinkLcm(c, DOMAIN c)
        term(potential_linker, pg) ==
            LET links == c[potential_linker]
            IN  IF links = {}
                THEN BigMul(pr.num[potential_linker], K)
                ELSE IF potential_linker \in c[pg]
                THEN BigMul(pr.num[potential_linker], (N * K) \div Cardinality(links))
                ELSE BigZero
        total(pg) == BigSumOver([q \in DOMAIN c |-> term(q, pg)], DOMAIN c)
    IN  IF N = 0 THEN pr
        ELSE Vec([pg \in DOMAIN c |->
                    BigAdd(BigMul(BigMul(pr.den, K), d[2] - d[1]),
                           BigMul(total(pg), d[1]))],
                 BigMul(BigMul(BigMul(pr.den, d[2]), N), K))

\* lines 113-122 with damping_factor - 1 for 1 - damping_factor on line 122
NewRankNegated(c, d, pr) ==
    LET N == Cardinality(DOMAIN c)
        K == LinkLcm(c, DOMAIN c)
        term(potential_linker, pg) ==
            LET links == c[potential_linker]
            IN  IF links = {}
                THEN BigMul(pr.num[potential_linker], K)
                ELSE IF pg \in links
                THEN BigMul(pr.num[potential_linker], (N * K) \div Cardinality(links))
                ELSE BigZero
        total(pg) == BigSumOver([q \in DOMAIN c |-> term(q, pg)], DOMAIN c)
    IN  IF N = 0 THEN pr
        ELSE Vec([pg \in DOMAIN c |->
                    BigAdd(BigMul(BigMul(pr.den, K), d[1] - d[2]),
                           BigMul(total(pg), d[1]))],
                 BigMul(BigMul(BigMul(pr.den, d[2]), N), K))

\* lines 113-122: new_rank, over the denominator pr.den * Scale(c, d)
NewRank(c, d, pr) ==
    LET N == Cardinality(DOMAIN c)
        K == LinkLcm(c, DOMAIN c)
        \* what potential_linker adds to total, over pr.den * N * K
        term(potential_linker, pg) ==
            LET links == c[potential_linker]
            IN  IF links = {}
                THEN BigMul(pr.num[potential_linker], K)
                ELSE IF pg \in links
                THEN BigMul(pr.num[potential_linker], (N * K) \div Cardinality(links))
                ELSE BigZero
        total(pg) == BigSumOver([q \in DOMAIN c |-> term(q, pg)], DOMAIN c)
    IN  IF N = 0 THEN pr
        ELSE Vec([pg \in DOMAIN c |->
                    BigAdd(BigMul(BigMul(pr.den, K), d[2] - d[1]),
                           BigMul(total(pg), d[1]))],
                 BigMul(BigMul(BigMul(pr.den, d[2]), N), K))

\* pr over the denominator pr.den * m
Rescale(pr, m) ==
    Vec([p \in DOMAIN pr.num |-> BigMul(pr.num[p], m)], BigMul(pr.den, m))

\* |new[pg] - old[pg]| < convergence_threshold, old and new over one denominator
Close(old, new, pg) ==
    BigLess(BigMul(BigAbs(BigSub(new.num[pg], old.num[pg])), convergence_threshold[2]),
            BigMul(new.den, convergence_threshold[1]))

\* line 125 with any() for all()
ConvergedAny(old, new) == \E pg \in DOMAIN old.num : Close(old, new, pg)

\* line 125
Converged(old, new) == \A pg \in DOMAIN old.num : Close(old, new, pg)

\* lines 131-133: every rank divided by the sum of the ranks
Normalise(pr, ks) == Reduce(Vec(pr.num, VecSum(pr)), ks)

\* lines 105-110
IterateEntry ==
    /\ pc = "idle"
    /\ \E c \in Corpora, d \in Dampings :
        /\ corpus' = c
        /\ damping_factor' = d
        /\ pagerank' = InitialRank(c)
    /\ pc' = "iterate_loop"
    /\ seen' = {}
    /\ UNCHANGED <<n, page_counts, page, i, model, model_page, pageranks>>

\* lines 113-128: one round of the while loop
IterateRound ==
    /\ pc = "iterate_loop"
    /\ Len(pagerank.den.mag) <= MaxLimbs
    /\ LET m == IF DOMAIN corpus = {} THEN 1 ELSE Scale(corpus, damping_factor)
           new_rank == NewRank(corpus, damping_factor, pagerank)
       IN  IF Converged(Rescale(pagerank, m), new_rank)
           THEN pc' = "iterate_norm" /\ UNCHANGED pagerank
           ELSE /\ pagerank' = Reduce(new_rank, Factors(corpus, damping_factor))
                /\ UNCHANGED pc
    /\ seen' = seen \cup {pagerank}
    /\ UNCHANGED <<corpus, damping_factor, n, page_counts, page, i, model, model_page, pageranks>>

\* lines 131-135: dividing by a zero total_sum raises ZeroDivisionError
IterateReturn ==
    /\ pc = "iterate_norm"
    /\ IF DOMAIN corpus # {} /\ VecSum(pagerank) = BigZero
       THEN pc' = "ZeroDivisionError" /\ UNCHANGED pagerank
       ELSE /\ pc' = "iterate_done"
            /\ pagerank' = IF DOMAIN corpus = {} THEN pagerank
                           ELSE Normalise(pagerank, Factors(corpus, damping_factor))
    /\ UNCHANGED <<corpus, damping_factor, n, page_counts, page, i, model, model_page, pageranks,
                   seen>>

Next ==
    \/ SampleEntry
    \/ SampleStep
    \/ SampleReturn
    \/ IterateEntry
    \/ IterateRound
    \/ IterateReturn

Spec == Init /\ [][Next]_vars

\* ============================================================== properties
NumPages == Cardinality(DOMAIN corpus)
ModelComputed == model_page # NoPage
InSample == pc \in {"sample_loop", "sample_done"}
InIterate == pc \in {"iterate_loop", "iterate_norm", "iterate_done"}

\* C1: the distribution transition_model returns has exactly the pages of the
\* corpus as keys and its values sum to exactly 1, whether or not the page has
\* links.
C1_TransitionSumsToOne ==
    ModelComputed =>
        /\ DOMAIN model = DOMAIN corpus
        /\ RatSum(model) = One

C1_Witness ==
    /\ ModelComputed
    /\ NumPages = 3
    /\ Cardinality(corpus[model_page]) = 1
    /\ damping_factor = DAMPING

\* C2: for a page with k >= 1 links, every page it does not link to (itself
\* included) gets exactly (1-d)/N and every page it links to exactly
\* (1-d)/N + d/k; so a linked page gets at least (1-d)/N and, when d > 0,
\* strictly more than every page that is not linked.
C2_NeighborShare ==
    (ModelComputed /\ corpus[model_page] # {}) =>
        LET S == corpus[model_page]
            k == Cardinality(S)
            dn == damping_factor[1]
            dd == damping_factor[2]
        IN  /\ model_page \notin S
            /\ \A p \in DOMAIN corpus \ S :
                  model[p][1] * (dd * NumPages) = model[p][2] * (dd - dn)
            /\ \A p \in S :
                  /\ model[p][1] * (dd * NumPages * k)
                        = model[p][2] * ((dd - dn) * k + dn * NumPages)
                  /\ model[p][1] * (dd * NumPages) >= model[p][2] * (dd - dn)
                  /\ dn > 0 =>
                        \A q \in DOMAIN corpus \ S :
                            model[q][1] * model[p][2] < model[p][1] * model[q][2]

C2_Witness ==
    /\ ModelComputed
    /\ NumPages = 3
    /\ Cardinality(corpus[model_page]) = 1
    /\ damping_factor = <<1, 2>>
    /\ \E p \in corpus[model_page] : model[p] = <<2, 3>>

\* C3: for a page without links every page, itself included, gets exactly 1/N,
\* whatever the damping factor.
C3_DeadEndUniform ==
    (ModelComputed /\ corpus[model_page] = {}) =>
        /\ \A p \in DOMAIN corpus : model[p] = <<1, NumPages>>
        /\ \A d \in Dampings : transition_model(corpus, model_page, d) = model

C3_Witness ==
    /\ ModelComputed
    /\ corpus[model_page] = {}
    /\ NumPages = 3
    /\ damping_factor = DAMPING
    /\ model[model_page] = <<1, 3>>

\* sum of the integers f[p], p in S
RECURSIVE IntSumOver(_, _)
IntSumOver(f, S) ==
    IF S = {} THEN 0
    ELSE LET p == CHOOSE x \in S : TRUE
         IN  f[p] + IntSumOver(f, S \ {p})

ValidSample == NumPages > 0 /\ n > 0
ValidIterate == NumPages > 0

\* C4: sample_pagerank and iterate_pagerank return a mapping whose keys are
\* the pages of the corpus and whose values sum to 1; in sample_pagerank the
\* counters sum to the number of loop iterations done, every iteration adding
\* one to the counter of one page of the corpus, so they sum to n at the end.
C4_RanksSumToOne ==
    /\ (InSample /\ ValidSample) =>
            /\ DOMAIN page_counts = DOMAIN corpus
            /\ \A p \in DOMAIN corpus : page_counts[p] >= 0
            /\ IntSumOver(page_counts, DOMAIN page_counts) = i
    /\ (pc = "sample_done" /\ ValidSample) =>
            /\ i = n
            /\ DOMAIN pageranks = DOMAIN corpus
            /\ RatSum(pageranks) = One
    /\ (pc = "iterate_done" /\ ValidIterate) =>
            /\ DOMAIN pagerank.num = DOMAIN corpus
            /\ VecSum(pagerank) = pagerank.den

C4_Witness ==
    /\ pc = "sample_done"
    /\ NumPages = 3
    /\ n = 3
    /\ \E p, q \in DOMAIN corpus : pageranks[p] = <<2, 3>> /\ pageranks[q] = <<1, 3>>

\* C6: a call with an empty corpus, or sample_pagerank with n <= 0, raises an
\* error and returns no mapping.
C6_FailFast ==
    /\ pc = "sample_done" => ValidSample
    /\ pc = "iterate_done" => ValidIterate

\* sum over q of pr[q] * transition_model(c, q, d)[pg], over pr.den * Scale(c, d)
Mix(c, d, pr) ==
    LET L == Scale(c, d)
        weight(q, pg) ==
            LET t == transition_model(c, q, d)[pg]
            IN  t[1] * (L \div t[2])
    IN  Vec([pg \in DOMAIN c |->
                BigSumOver([q \in DOMAIN c |-> BigMul(pr.num[q], weight(q, pg))],
                           DOMAIN c)],
            BigMul(pr.den, L))

\* the rank vectors over N pages with numerators 0..RankGrid that sum to 1
RankGrid == 3
TestRanks(N) ==
    {Vec([p \in 1..N |-> BigInt(f[p])], BigInt(RankGrid)) :
        f \in {g \in [1..N -> 0..RankGrid] : IntSumOver(g, 1..N) = RankGrid}}

\* C7: the new rank one round computes for a page is the sum over all pages q
\* of the rank of q times the transition_model probability of going from q to
\* the page, for the ranks of every round and for every rank vector that sums
\* to 1.
C7_SameTransitionSemantics ==
    (pc = "iterate_loop" /\ ValidIterate) =>
        /\ NewRank(corpus, damping_factor, pagerank) = Mix(corpus, damping_factor, pagerank)
        /\ pagerank = InitialRank(corpus) =>
              \A pr \in TestRanks(NumPages) :
                  NewRank(corpus, damping_factor, pr) = Mix(corpus, damping_factor, pr)

C7_Witness ==
    /\ pc = "iterate_loop"
    /\ NumPages = 3
    /\ damping_factor = DAMPING
    /\ pagerank # InitialRank(corpus)
    /\ \E p, q \in DOMAIN corpus : corpus[p] = {} /\ Cardinality(corpus[q]) = 2

\* C10: in iterate_pagerank the ranks sum to exactly 1 and none is negative,
\* at the start of every round and after every update, so the division by
\* their sum at the end changes nothing.
C10_RanksStayDistribution ==
    (InIterate /\ ValidIterate) =>
        /\ VecSum(pagerank) = pagerank.den
        /\ BigLess(BigZero, pagerank.den)
        /\ \A p \in DOMAIN corpus : ~pagerank.num[p].neg
        /\ pc = "iterate_loop" =>
              LET new_rank == NewRank(corpus, damping_factor, pagerank)
              IN  /\ VecSum(new_rank) = new_rank.den
                  /\ \A p \in DOMAIN corpus : ~new_rank.num[p].neg
        /\ pc = "iterate_norm" =>
              Normalise(pagerank, Factors(corpus, damping_factor)) = pagerank

C10_Witness ==
    /\ pc = "iterate_norm"
    /\ NumPages = 3
    /\ damping_factor = DAMPING
    /\ pagerank # InitialRank(corpus)
    /\ \E p \in DOMAIN corpus : corpus[p] = {}

\* |new[pg] - old[pg]| * 1000 < 1, old and new over the denominator new.den
Within(old, new, pg) ==
    LET gap == BigSub(new.num[pg], old.num[pg])
    IN  BigLess(BigMul(IF gap.neg THEN BigNeg(gap) ELSE gap, 1000), new.den)

\* C9: iterate_pagerank starts from rank 1/N for every page; a round leaves
\* the loop exactly when every page's new rank is strictly within 0.001 of its
\* current rank, and otherwise the new ranks become the current ranks and the
\* loop goes on; what is returned is the current ranks of the round that left
\* the loop, divided by their sum, and one more round on those ranks moves
\* every page's rank by less than 0.001.
C9_ConvergenceRule ==
    [][
        /\ (pc = "idle" /\ pc' = "iterate_loop") =>
              \A p \in DOMAIN corpus' :
                  BigMul(pagerank'.num[p], Cardinality(DOMAIN corpus')) = pagerank'.den
        /\ (pc = "iterate_loop" /\ ValidIterate) =>
              LET old == Rescale(pagerank, Scale(corpus, damping_factor))
                  new == NewRank(corpus, damping_factor, pagerank)
                  settled == \A pg \in DOMAIN corpus : Within(old, new, pg)
              IN  /\ pc' = "iterate_norm" <=> settled
                  /\ settled => pagerank' = pagerank
                  /\ ~settled =>
                        /\ pc' = "iterate_loop"
                        /\ pagerank' = Reduce(new, Factors(corpus, damping_factor))
        /\ (pc = "iterate_norm" /\ ValidIterate) =>
              /\ pc' = "iterate_done"
              /\ pagerank' = Normalise(pagerank, Factors(corpus, damping_factor))
              /\ \A pg \in DOMAIN corpus :
                    Within(Rescale(pagerank, Scale(corpus, damping_factor)),
                           NewRank(corpus, damping_factor, pagerank), pg)
    ]_vars

C9_Witness ==
    /\ pc = "iterate_done"
    /\ NumPages = 3
    /\ damping_factor = <<1, 2>>
    /\ pagerank # InitialRank(corpus)

\* the corpus {A: {}, B: {A}}, A = 1 and B = 2
DeadEndCorpus == <<{}, {1}>>

\* the rounds of the while loop started so far, while no ranks have come back
Rounds == Cardinality(seen)

\* C8: for the corpus {A: {}, B: {A}} and damping 0.85, iterate_pagerank
\* returns (its loop ends in the 8th round, no round starting from the ranks
\* of an earlier round), and in the mapping it returns the rank of A is
\* strictly greater than the rank of B.
C8_DeadEndOutranks ==
    (InIterate /\ corpus = DeadEndCorpus /\ damping_factor = DAMPING) =>
        /\ pc = "iterate_loop" => (pagerank \notin seen /\ Rounds < 8)
        /\ pc = "iterate_done" => BigLess(pagerank.num[2], pagerank.num[1])

\* the ranks 212826943113/327680000000 and 114853056887/327680000000
C8_Witness ==
    /\ pc = "iterate_done"
    /\ corpus = DeadEndCorpus
    /\ damping_factor = DAMPING
    /\ pagerank = Vec(<<Big(FALSE, <<943113, 212826>>), Big(FALSE, <<56887, 114853>>)>>,
                      Big(FALSE, <<0, 327680>>))

\* C5: for every corpus with at least one page and every damping factor in
\* [0, 1], the while loop of iterate_pagerank ends and the function returns:
\* no round starts from the ranks an earlier round started from (the loop has
\* no other state, so such a round repeats the earlier one, for ever).
C5_IterateTerminates ==
    (pc = "iterate_loop" /\ ValidIterate) => pagerank \notin seen

====
